---------------------------- MODULE Spec2Model ----------------------------
(***************************************************************************)
(* pythainlp.tokenize: the dictionary builder (dict_trie), the word-level  *)
(* dispatcher (word_tokenize), the sentence splitter (sent_tokenize), the  *)
(* subword dispatcher (subword_tokenize), the two-layer syllable tokenizer *)
(* (syllable_tokenize) and the stateful Tokenizer facade.                  *)
(*                                                                         *)
(* A text is a sequence of one-character strings.  A Python value is a     *)
(* record tagged with its type.  A token list is a Python list of texts.   *)
(***************************************************************************)
EXTENDS Integers, Sequences, FiniteSets

VARIABLES
    pc,              \* "call": arguments chosen, call pending; "idle"; "done"
    op,              \* the entry point of the pending / last call
    args,            \* its arguments
    ret,             \* the value it returned (NoValue when none)
    raised,          \* the exception it raised (NoError when none)
    calls,           \* the engine collaborators it invoked, in order
    self,            \* the Tokenizer facade's fields (NoTokenizer before __init__)
    constructed_with,\* history: the arguments __init__ was given
    requested_engine,\* history: the engine name last given to __init__ or the setter
    dict_trie_count  \* history: how many times dict_trie has been invoked

vars ==
    <<pc, op, args, ret, raised, calls, self, constructed_with, requested_engine,
      dict_trie_count>>

-----------------------------------------------------------------------------
(* Bounds of the model *)

\* longest text given to word_tokenize, subword_tokenize and sent_tokenize
MaxLen == 3
\* longest text given to syllable_tokenize
MaxSylLen == 4
\* longest text given to a Tokenizer facade
MaxFacadeLen == 2
\* most "a " units in the long sentence texts given to sent_tokenize
MaxRuns == 34

-----------------------------------------------------------------------------
(* Python values *)

PyNone == [type |-> "NoneType"]
PyStr(s) == [type |-> "str", val |-> s]
PyInt(n) == [type |-> "int", val |-> n]
PyList(xs) == [type |-> "list", items |-> xs]
PyTrie(ks) == [type |-> "Trie", keys |-> ks]

NoValue == [type |-> "novalue"]
NoError == [type |-> "none"]
\* the marker of an optional argument the caller leaves out
Absent == [type |-> "absent"]

\* bool(v): None, 0, "", [] and an empty Trie (it defines __len__) are false
Truthy(v) ==
    IF v.type = "NoneType" THEN FALSE
    ELSE IF v.type = "str" THEN Len(v.val) > 0
    ELSE IF v.type = "int" THEN v.val # 0
    ELSE IF v.type = "list" THEN Len(v.items) > 0
    ELSE IF v.type = "Trie" THEN v.keys # {}
    ELSE TRUE

\* isinstance(v, Iterable)
IsIterable(v) == v.type \in {"str", "list", "Trie"}

RECURSIVE SetToSeq(_)
\* the elements of a finite set, each once, in one fixed order
SetToSeq(S) ==
    IF S = {} THEN <<>>
    ELSE LET x == CHOOSE y \in S : TRUE IN <<x>> \o SetToSeq(S \ {x})

SeqToSet(xs) == {xs[i] : i \in 1..Len(xs)}

RECURSIVE Concat(_)
\* "".join(tokens)
Concat(tokens) ==
    IF tokens = <<>> THEN <<>> ELSE Head(tokens) \o Concat(Tail(tokens))

RECURSIVE Flatten(_)
\* the concatenation of a sequence of token sequences
Flatten(lists) ==
    IF lists = <<>> THEN <<>> ELSE Head(lists) \o Flatten(Tail(lists))

RECURSIVE TextsUpTo(_, _)
\* every text over alphabet A of length at most n
TextsUpTo(A, n) ==
    IF n = 0 THEN {<<>>}
    ELSE LET shorter == TextsUpTo(A, n - 1)
         IN shorter \cup {Append(t, c) : t \in shorter, c \in A}

\* unit * n
Repeat(unit, n) == [i \in 1..(n * Len(unit)) |-> unit[((i - 1) % Len(unit)) + 1]]

-----------------------------------------------------------------------------
(* The corpus and the process-wide tries *)

SP == " "
TAB == "\t"
NL == "\n"
Alphabet == {"k", "a", SP, TAB, NL}
\* str.split() and str.strip() with no argument treat these as whitespace
Whitespace == {SP, TAB, NL}
\* str.splitlines() ends a line at these
LineBoundaries == {NL}

\* thai_words()
thai_words == {<<"k", "a">>, <<"a", "k">>, <<"k", "a", "k", "a">>}
\* get_corpus("words_th_frozen_201810.txt")
words_th_frozen == {<<"k">>, <<"k", "a">>}
\* thai_syllables()
thai_syllables == PyList(<<<<"k", "a">>, <<"a">>>>)

DEFAULT_DICT_TRIE == PyTrie(thai_words)
FROZEN_DICT_TRIE == PyTrie(words_th_frozen)

-----------------------------------------------------------------------------
(* The engine collaborators: segment(text, dictionary?) -> tokens.         *)
(* Their algorithms live outside this package's __init__; they are         *)
(* modelled from their contract: a dictionary-driven cut of the text whose *)
(* tokens, concatenated, are the text.                                     *)

Max(S) == CHOOSE x \in S : \A y \in S : y <= x
Min(S) == CHOOSE x \in S : \A y \in S : x <= y

\* the lengths of the dictionary words that start at position i of s
MatchLens(D, s, i) == {l \in 1..(Len(s) - i + 1) : SubSeq(s, i, i + l - 1) \in D}

IsSpace(c) == c \in Whitespace

\* where the run of unmatched characters of one class that starts at i ends
RunEnd(D, s, i) ==
    Min({j \in (i + 1)..(Len(s) + 1) :
            \/ j = Len(s) + 1
            \/ MatchLens(D, s, j) # {}
            \/ IsSpace(s[j]) # IsSpace(s[i])})

\* the vocabulary an engine works with: the one it is given, else the default trie
Vocabulary(dict) ==
    IF dict.type = "Trie" THEN dict.keys
    ELSE IF dict.type = "list" THEN SeqToSet(dict.items)
    ELSE DEFAULT_DICT_TRIE.keys

RECURSIVE newmm_cut(_, _, _)
newmm_cut(D, s, i) ==
    IF i > Len(s) THEN <<>>
    ELSE LET m == MatchLens(D, s, i)
             j == IF m # {} THEN i + Max(m) ELSE RunEnd(D, s, i)
         IN <<SubSeq(s, i, j - 1)>> \o newmm_cut(D, s, j)

\* newmm.segment: maximum matching; unmatched runs are kept verbatim
newmm_segment(text, dict) == newmm_cut(Vocabulary(dict), text, 1)

RECURSIVE longest_cut(_, _, _)
longest_cut(D, s, i) ==
    IF i > Len(s) THEN <<>>
    ELSE LET m == MatchLens(D, s, i)
             j == IF m # {} THEN i + Max(m) ELSE i + 1
         IN <<SubSeq(s, i, j - 1)>> \o longest_cut(D, s, j)

\* longest.segment: longest matching; an unmatched character is a token
longest_segment(text, dict) == longest_cut(Vocabulary(dict), text, 1)

RECURSIVE multi_cut_cut(_, _, _)
multi_cut_cut(D, s, i) ==
    IF i > Len(s) THEN <<>>
    ELSE LET m == MatchLens(D, s, i)
             j == IF m # {} THEN i + Min(m) ELSE i + 1
         IN <<SubSeq(s, i, j - 1)>> \o multi_cut_cut(D, s, j)

\* multi_cut.segment: one of the candidate cuts of the word graph
multi_cut_segment(text, dict) == multi_cut_cut(Vocabulary(dict), text, 1)

\* deepcut.segment: its own model when it is given no vocabulary
deepcut_segment(text, dict) ==
    IF dict.type = "list" THEN longest_cut(SeqToSet(dict.items), text, 1)
    ELSE [i \in 1..Len(text) |-> <<text[i]>>]

RECURSIVE class_runs(_, _)
class_runs(s, i) ==
    IF i > Len(s) THEN <<>>
    ELSE LET j == RunEnd({}, s, i)
         IN <<SubSeq(s, i, j - 1)>> \o class_runs(s, j)

\* pyicu.segment: boundary analysis, no vocabulary
pyicu_segment(text) == class_runs(text, 1)

\* tcc.segment: character clusters
tcc_segment(text) == [i \in 1..Len(text) |-> <<text[i]>>]

\* etcc.segment: the coarser clusters
etcc_segment(text) == class_runs(text, 1)

\* the collaborator named by an invocation record, applied to its arguments
segment(call) ==
    IF call.module = "newmm" THEN newmm_segment(call.text, call.dict)
    ELSE IF call.module = "longest" THEN longest_segment(call.text, call.dict)
    ELSE IF call.module = "multi_cut" THEN multi_cut_segment(call.text, call.dict)
    ELSE IF call.module = "deepcut" THEN deepcut_segment(call.text, call.dict)
    ELSE IF call.module = "pyicu" THEN pyicu_segment(call.text)
    ELSE IF call.module = "etcc" THEN etcc_segment(call.text)
    ELSE tcc_segment(call.text)

\* an invocation of an engine collaborator: which module, and what it is handed
Invocation(module, text, dict) == [module |-> module, text |-> text, dict |-> dict]

-----------------------------------------------------------------------------
(* word_tokenize *)

\* what a call returns: its value or its exception, the engine invocations it
\* made and how many times it ran dict_trie
Outcome(value, error, invoked, builds) ==
    [ret |-> value, raised |-> error, calls |-> invoked, builds |-> builds]

\* the guard without its `not text` half
InputIgnored_type_only(text) == text.type # "str"

\* `not text or not isinstance(text, str)`
InputIgnored(text) == ~Truthy(text) \/ text.type # "str"

\* the TypeError of iterating a value that is not iterable, by its words
NotIterableError(v) ==
    [type |-> "TypeError",
     msg |-> <<"'", v.type, "'", "object", "is", "not", "iterable">>]

IsException(v) == v.type = "TypeError"

\* list(custom_dict): the elements of an iterable; of anything else, the
\* TypeError the conversion raises
list(v) ==
    IF v.type = "Trie" THEN PyList(SetToSeq(v.keys))
    ELSE IF v.type = "str" THEN PyList([i \in 1..Len(v.val) |-> <<v.val[i]>>])
    ELSE IF v.type = "list" THEN v
    ELSE NotIterableError(v)

\* the chain with its final else sent to the longest-matching engine
EngineCall_else_longest(text, custom_dict, engine) ==
    IF engine = "newmm" \/ engine = "onecut"
    THEN Invocation("newmm", text, custom_dict)
    ELSE IF engine = "longest"
    THEN Invocation("longest", text, custom_dict)
    ELSE IF engine = "mm" \/ engine = "multi_cut"
    THEN Invocation("multi_cut", text, custom_dict)
    ELSE IF engine = "deepcut"
    THEN IF Truthy(custom_dict)
         THEN Invocation("deepcut", text, list(custom_dict))
         ELSE Invocation("deepcut", text, Absent)
    ELSE IF engine = "ulmfit"
    THEN Invocation("newmm", text, FROZEN_DICT_TRIE)
    ELSE IF engine = "icu"
    THEN Invocation("pyicu", text, Absent)
    ELSE Invocation("longest", text, custom_dict)

\* the if/elif chain on the engine name: the collaborator invoked and the
\* dictionary argument it is handed (Absent: called without one; an exception:
\* computing the argument raised it, and the collaborator is not invoked)
EngineCall(text, custom_dict, engine) ==
    IF engine = "newmm" \/ engine = "onecut"
    THEN Invocation("newmm", text, custom_dict)
    ELSE IF engine = "longest"
    THEN Invocation("longest", text, custom_dict)
    ELSE IF engine = "mm" \/ engine = "multi_cut"
    THEN Invocation("multi_cut", text, custom_dict)
    ELSE IF engine = "deepcut"
    THEN IF Truthy(custom_dict)
         THEN Invocation("deepcut", text, list(custom_dict))
         ELSE Invocation("deepcut", text, Absent)
    ELSE IF engine = "ulmfit"
    THEN Invocation("newmm", text, FROZEN_DICT_TRIE)
    ELSE IF engine = "icu"
    THEN Invocation("pyicu", text, Absent)
    ELSE Invocation("newmm", text, custom_dict)

\* the first and last positions of a token that hold one of the characters
\* not in `chars`
FirstKept(token, chars) == Min({i \in 1..Len(token) : token[i] \notin chars})
LastKept(token, chars) == Max({i \in 1..Len(token) : token[i] \notin chars})

\* token.strip(): every whitespace character is stripped, not the space alone
strip_space_any_whitespace(token) ==
    IF \A i \in 1..Len(token) : token[i] \in Whitespace THEN <<>>
    ELSE SubSeq(token, FirstKept(token, Whitespace), LastKept(token, Whitespace))

\* token.strip(" ")
strip_space(token) ==
    IF \A i \in 1..Len(token) : token[i] = SP THEN <<>>
    ELSE SubSeq(token, FirstKept(token, {SP}), LastKept(token, {SP}))

IsKept(token) == strip_space(token) # <<>>

\* [token.strip(" ") for token in segments if token.strip(" ")]
drop_whitespace(segments) ==
    LET kept == SelectSeq(segments, IsKept)
    IN [i \in 1..Len(kept) |-> strip_space(kept[i])]

word_tokenize(text, custom_dict, engine, keep_whitespace) ==
    IF InputIgnored(text) THEN Outcome(PyList(<<>>), NoError, <<>>, 0)
    ELSE LET call == EngineCall(text.val, custom_dict, engine)
             segments == segment(call)
         IN IF IsException(call.dict) THEN Outcome(NoValue, call.dict, <<>>, 0)
            ELSE Outcome(PyList(IF ~keep_whitespace THEN drop_whitespace(segments)
                                ELSE segments),
                         NoError, <<call>>, 0)

-----------------------------------------------------------------------------
(* sent_tokenize *)

\* re.U, which the call hands to re.split in the position of maxsplit
RE_U == 32

\* the positions where a run of characters of the set C starts in s
RunStarts(s, C) ==
    {i \in 1..Len(s) : s[i] \in C /\ (i = 1 \/ s[i - 1] \notin C)}

\* the position after the run of characters of C that position i is in
RunStop(s, C, i) ==
    Min({j \in (i + 1)..(Len(s) + 1) : j = Len(s) + 1 \/ s[j] \notin C})

\* the k-th smallest element of a set of numbers
Nth(S, k) == CHOOSE x \in S : Cardinality({y \in S : y < x}) = k - 1

\* re.split(r" +", s, maxsplit): the text is cut at the runs of spaces, from
\* the left, at no more than maxsplit of them; maxsplit = 0 puts no limit
re_split_spaces(s, maxsplit) ==
    LET runs == RunStarts(s, {SP})
        cuts == IF maxsplit = 0 THEN runs
                ELSE {i \in runs : Cardinality({j \in runs : j < i}) < maxsplit}
        n == Cardinality(cuts)
        first(m) == IF m = 1 THEN 1 ELSE RunStop(s, {SP}, Nth(cuts, m - 1))
        last(m) == IF m = n + 1 THEN Len(s) ELSE Nth(cuts, m) - 1
    IN [m \in 1..(n + 1) |-> SubSeq(s, first(m), last(m))]

\* s.split(): the maximal runs of characters that are not whitespace
str_split(s) ==
    LET others == {s[i] : i \in 1..Len(s)} \ Whitespace
        starts == RunStarts(s, others)
    IN [m \in 1..Cardinality(starts) |->
           SubSeq(s, Nth(starts, m), RunStop(s, others, Nth(starts, m)) - 1)]

sent_tokenize(text, engine) ==
    IF InputIgnored(text) THEN Outcome(PyList(<<>>), NoError, <<>>, 0)
    ELSE IF engine = "whitespace"
    THEN Outcome(PyList(re_split_spaces(text.val, RE_U)), NoError, <<>>, 0)
    ELSE Outcome(PyList(str_split(text.val)), NoError, <<>>, 0)

-----------------------------------------------------------------------------
(* subword_tokenize *)

subword_tokenize(text, engine) ==
    IF InputIgnored(text) THEN Outcome(PyList(<<>>), NoError, <<>>, 0)
    ELSE LET call == IF engine = "etcc" THEN Invocation("etcc", text.val, Absent)
                     ELSE Invocation("tcc", text.val, Absent)
         IN Outcome(PyList(segment(call)), NoError, <<call>>, 0)

-----------------------------------------------------------------------------
(* dict_trie *)

\* the file system: the paths that name a readable file, and what each holds
Files == {<<"a">>, <<"k">>}
FileContent(path) ==
    IF path = <<"a">> THEN <<"k", "a", NL, "k">>
    ELSE <<"a", SP, NL, TAB, "a", NL>>

RECURSIVE splitlines_from(_, _, _)
splitlines_from(s, i, cur) ==
    IF i > Len(s) THEN (IF cur = <<>> THEN <<>> ELSE <<cur>>)
    ELSE IF s[i] \in LineBoundaries THEN <<cur>> \o splitlines_from(s, i + 1, <<>>)
    ELSE splitlines_from(s, i + 1, Append(cur, s[i]))

\* s.splitlines()
splitlines(s) == splitlines_from(s, 1, <<>>)

\* Trie(keys)
Trie(keys) == PyTrie(SeqToSet(keys))

\* the words of the TypeError's message
TypeErrorMessage ==
    <<"Type", "of", "dict_source", "must", "be", "marisa_trie.Trie", ",", "or",
      "Iterable[str]", ",", "or", "str", "(path", "to", "source", "file)">>

TypeError == [type |-> "TypeError", msg |-> TypeErrorMessage]
\* what open() raises on a path that names no file
FileNotFoundError == [type |-> "FileNotFoundError", msg |-> <<>>]

\* the Iterable test made before the str test: a path is read as its characters
dict_trie_iterable_first(dict_source) ==
    IF dict_source.type = "Trie"
    THEN Outcome(dict_source, NoError, <<>>, 1)
    ELSE IF IsIterable(dict_source)
    THEN Outcome(Trie(list(dict_source).items), NoError, <<>>, 1)
    ELSE Outcome(NoValue, TypeError, <<>>, 1)

\* the final else left out: `trie` is still None and is returned
dict_trie_no_raise(dict_source) ==
    IF dict_source.type = "Trie"
    THEN Outcome(dict_source, NoError, <<>>, 1)
    ELSE IF dict_source.type = "str"
    THEN IF dict_source.val \in Files
         THEN Outcome(Trie(splitlines(FileContent(dict_source.val))), NoError, <<>>, 1)
         ELSE Outcome(NoValue, FileNotFoundError, <<>>, 1)
    ELSE IF IsIterable(dict_source)
    THEN Outcome(Trie(dict_source.items), NoError, <<>>, 1)
    ELSE Outcome(PyNone, NoError, <<>>, 1)

dict_trie(dict_source) ==
    IF dict_source.type = "Trie"
    THEN Outcome(dict_source, NoError, <<>>, 1)
    ELSE IF dict_source.type = "str"
    THEN IF dict_source.val \in Files
         THEN Outcome(Trie(splitlines(FileContent(dict_source.val))), NoError, <<>>, 1)
         ELSE Outcome(NoValue, FileNotFoundError, <<>>, 1)
    ELSE IF IsIterable(dict_source)
    THEN Outcome(Trie(dict_source.items), NoError, <<>>, 1)
    ELSE Outcome(NoValue, TypeError, <<>>, 1)

-----------------------------------------------------------------------------
(* syllable_tokenize *)

\* the words re-segmented with keep_whitespace=False
SyllablesOf_no_whitespace(words, trie) ==
    [i \in 1..Len(words) |-> word_tokenize(PyStr(words[i]), trie, "newmm", FALSE)]

\* word_tokenize(text=word, custom_dict=trie) for every word, in order
SyllablesOf(words, trie) ==
    [i \in 1..Len(words) |-> word_tokenize(PyStr(words[i]), trie, "newmm", TRUE)]

syllable_tokenize(text) ==
    IF InputIgnored(text) THEN Outcome(PyList(<<>>), NoError, <<>>, 0)
    ELSE LET words == word_tokenize(text, PyNone, "newmm", TRUE)
             trie == dict_trie(thai_syllables)
             parts == SyllablesOf(words.ret.items, trie.ret)
         IN Outcome(PyList(Flatten([i \in 1..Len(parts) |-> parts[i].ret.items])),
                    NoError,
                    words.calls \o Flatten([i \in 1..Len(parts) |-> parts[i].calls]),
                    trie.builds)

-----------------------------------------------------------------------------
(* Tokenizer *)

NoTokenizer == [type |-> "novalue"]
Tokenizer(trie_dict, engine) ==
    [type |-> "Tokenizer", trie_dict |-> trie_dict, engine |-> engine]

\* Tokenizer.__init__: the new object's fields, or the exception of dict_trie
Tokenizer_init(custom_dict, engine) ==
    IF Truthy(custom_dict)
    THEN LET built == dict_trie(custom_dict)
         IN Outcome(IF built.raised = NoError THEN Tokenizer(built.ret, engine)
                    ELSE NoTokenizer,
                    built.raised, <<>>, built.builds)
    ELSE Outcome(Tokenizer(DEFAULT_DICT_TRIE, engine), NoError, <<>>, 0)

\* Tokenizer.word_tokenize
Tokenizer_word_tokenize(obj, text) ==
    word_tokenize(text, obj.trie_dict, obj.engine, TRUE)

\* Tokenizer.set_tokenize_engine: the object's fields afterwards
Tokenizer_set_tokenize_engine(obj, engine) == [obj EXCEPT !.engine = engine]

-----------------------------------------------------------------------------
(* The arguments the calls are given *)

\* values of `text` that are not strings: None, 0, 7 and a list
NonStrings == {PyNone, PyInt(0), PyInt(7), PyList(<<<<"k">>>>)}
StrTexts(n) == {PyStr(t) : t \in TextsUpTo(Alphabet, n)}
Texts == StrTexts(MaxLen) \cup NonStrings
SylTexts == StrTexts(MaxSylLen) \cup NonStrings
FacadeTexts == StrTexts(MaxFacadeLen) \cup NonStrings
\* "a a a ... " and "a  a  a  ... ": texts of many runs of spaces
LongTexts ==
    {PyStr(Repeat(<<"a", SP>>, n)) : n \in 0..MaxRuns}
        \cup {PyStr(Repeat(<<"a", SP, SP>>, n)) : n \in 0..MaxRuns}
SentTexts == Texts \cup LongTexts

EmptyTrie == PyTrie({})
\* a trie with words that begin or end with a space or a tab
SpacedTrie == PyTrie({<<"k">>, <<"a", SP>>, <<TAB, "a">>, <<SP, "k", NL>>})
NamesTrie == PyTrie({<<"k", "a", "k">>, <<"a">>})
CustomDicts == {PyNone, EmptyTrie, SpacedTrie, NamesTrie}

Engines ==
    {"newmm", "onecut", "longest", "mm", "multi_cut", "deepcut", "ulmfit", "icu",
     "nonexistent_name"}
\* the names the if/elif chain of word_tokenize tests for
RecognizedEngines ==
    {"newmm", "onecut", "longest", "mm", "multi_cut", "deepcut", "ulmfit", "icu"}
SentEngines == {"whitespace", "whitespace+newline", "nonexistent_name"}
SubwordEngines == {"tcc", "etcc", "nonexistent_name"}

\* what dict_trie and Tokenizer() are given: tries, paths of files that exist
\* and of one that does not, lists of words, and values of no supported type
DictSources ==
    {EmptyTrie, SpacedTrie, NamesTrie,
     PyStr(<<"a">>), PyStr(<<"k">>), PyStr(<<"k", "a">>), PyStr(<<>>),
     PyList(<<>>), PyList(<<<<"k">>, <<"a", "k">>>>),
     PyList(<<<<"a">>, <<"k", "a">>, <<"a">>>>),
     PyInt(5), PyInt(0), PyNone}

FacadeEngines == {"newmm", "longest", "deepcut", "nonexistent_name"}

ArgsOf(o) ==
    IF o = "word_tokenize"
    THEN [text : Texts, custom_dict : CustomDicts, engine : Engines,
          keep_whitespace : BOOLEAN]
             \cup [text : Texts, custom_dict : {PyInt(7), PyInt(0)},
                   engine : {"deepcut"}, keep_whitespace : BOOLEAN]
    ELSE IF o = "sent_tokenize" THEN [text : SentTexts, engine : SentEngines]
    ELSE IF o = "subword_tokenize" THEN [text : Texts, engine : SubwordEngines]
    ELSE IF o = "syllable_tokenize" THEN [text : SylTexts]
    ELSE IF o = "dict_trie" THEN [dict_source : DictSources]
    ELSE [custom_dict : DictSources, engine : Engines, text : FacadeTexts]

EntryPoints ==
    {"word_tokenize", "sent_tokenize", "subword_tokenize", "syllable_tokenize",
     "dict_trie", "Tokenizer.word_tokenize"}

-----------------------------------------------------------------------------
(* The module-level calls: the arguments are chosen, then the call runs *)

Init ==
    /\ pc = "call"
    /\ op \in EntryPoints
    /\ args \in ArgsOf(op)
    /\ ret = NoValue
    /\ raised = NoError
    /\ calls = <<>>
    /\ self = NoTokenizer
    /\ constructed_with = NoValue
    /\ requested_engine = "none"
    /\ dict_trie_count = 0

\* the call returns or raises
Finish(out) ==
    /\ pc' = "done"
    /\ ret' = out.ret
    /\ raised' = out.raised
    /\ calls' = out.calls
    /\ dict_trie_count' = dict_trie_count + out.builds

WordTokenize ==
    /\ pc = "call" /\ op = "word_tokenize"
    /\ Finish(word_tokenize(args.text, args.custom_dict, args.engine,
                            args.keep_whitespace))
    /\ UNCHANGED <<op, args, self, constructed_with, requested_engine>>

SentTokenize ==
    /\ pc = "call" /\ op = "sent_tokenize"
    /\ Finish(sent_tokenize(args.text, args.engine))
    /\ UNCHANGED <<op, args, self, constructed_with, requested_engine>>

SubwordTokenize ==
    /\ pc = "call" /\ op = "subword_tokenize"
    /\ Finish(subword_tokenize(args.text, args.engine))
    /\ UNCHANGED <<op, args, self, constructed_with, requested_engine>>

SyllableTokenize ==
    /\ pc = "call" /\ op = "syllable_tokenize"
    /\ Finish(syllable_tokenize(args.text))
    /\ UNCHANGED <<op, args, self, constructed_with, requested_engine>>

DictTrie ==
    /\ pc = "call" /\ op = "dict_trie"
    /\ Finish(dict_trie(args.dict_source))
    /\ UNCHANGED <<op, args, self, constructed_with, requested_engine>>

\* Tokenizer(custom_dict, engine).word_tokenize(text)
TokenizerThenWordTokenize ==
    /\ pc = "call" /\ op = "Tokenizer.word_tokenize"
    /\ LET made == Tokenizer_init(args.custom_dict, args.engine)
       IN /\ self' = made.ret
          /\ constructed_with' =
                 [custom_dict |-> args.custom_dict, engine |-> args.engine]
          /\ requested_engine' = args.engine
          /\ IF made.raised # NoError THEN Finish(made)
             ELSE LET out == Tokenizer_word_tokenize(made.ret, args.text)
                  IN Finish([out EXCEPT !.builds = made.builds])
    /\ UNCHANGED <<op, args>>

Next ==
    \/ WordTokenize
    \/ SentTokenize
    \/ SubwordTokenize
    \/ SyllableTokenize
    \/ DictTrie
    \/ TokenizerThenWordTokenize

Spec == Init /\ [][Next]_vars

-----------------------------------------------------------------------------
(* A Tokenizer facade over a sequence of calls *)

InitTokenizer ==
    /\ pc = "idle"
    /\ op = "none"
    /\ args = NoValue
    /\ ret = NoValue
    /\ raised = NoError
    /\ calls = <<>>
    /\ self = NoTokenizer
    /\ constructed_with = NoValue
    /\ requested_engine = "none"
    /\ dict_trie_count = 0

\* obj = Tokenizer(custom_dict, engine); a construction that raises ends the run
NewTokenizer ==
    /\ self = NoTokenizer /\ raised = NoError
    /\ \E custom_dict \in DictSources, engine \in FacadeEngines :
          LET made == Tokenizer_init(custom_dict, engine)
          IN /\ op' = "Tokenizer.__init__"
             /\ args' = [custom_dict |-> custom_dict, engine |-> engine]
             /\ constructed_with' = [custom_dict |-> custom_dict, engine |-> engine]
             /\ requested_engine' = engine
             /\ self' = made.ret
             /\ Finish([made EXCEPT !.ret = NoValue])

\* obj.word_tokenize(text)
FacadeWordTokenize ==
    /\ self # NoTokenizer
    /\ \E text \in FacadeTexts :
          /\ op' = "Tokenizer.word_tokenize"
          /\ args' = [text |-> text]
          /\ Finish(Tokenizer_word_tokenize(self, text))
    /\ UNCHANGED <<self, constructed_with, requested_engine>>

\* obj.set_tokenize_engine(engine)
FacadeSetEngine ==
    /\ self # NoTokenizer
    /\ \E engine \in FacadeEngines :
          /\ op' = "Tokenizer.set_tokenize_engine"
          /\ args' = [engine |-> engine]
          /\ self' = Tokenizer_set_tokenize_engine(self, engine)
          /\ requested_engine' = engine
          /\ Finish(Outcome(PyNone, NoError, <<>>, 0))
    /\ UNCHANGED constructed_with

NextTokenizer ==
    \/ NewTokenizer
    \/ FacadeWordTokenize
    \/ FacadeSetEngine

SpecTokenizer == InitTokenizer /\ [][NextTokenizer]_vars

-----------------------------------------------------------------------------
(* Properties *)

\* a call of entry point o has run to its end
Done(o) == pc = "done" /\ op = o

\* the text is empty, None or not a string
EmptyOrNotString(text) == text.type # "str" \/ Len(text.val) = 0

TokenizingEntryPoints ==
    {"word_tokenize", "sent_tokenize", "subword_tokenize", "syllable_tokenize",
     "Tokenizer.word_tokenize"}

\* C1: on every tokenizing entry point (for Tokenizer.word_tokenize, once the
\* facade is constructed) and for every engine name, a text that is empty,
\* None or not a string yields the empty token list, raises nothing, and no
\* engine collaborator has been invoked.
C1_IgnoredInputYieldsEmpty ==
    (/\ pc = "done"
     /\ op \in TokenizingEntryPoints
     /\ EmptyOrNotString(args.text)
     /\ (op = "Tokenizer.word_tokenize" => self # NoTokenizer))
        => (ret = PyList(<<>>) /\ raised = NoError /\ calls = <<>>)

\* a facade bound to an unrecognized engine name was given the empty string
C1_Witness ==
    /\ Done("Tokenizer.word_tokenize")
    /\ self # NoTokenizer
    /\ args.engine = "nonexistent_name"
    /\ args.text = PyStr(<<>>)
    /\ ret = PyList(<<>>)

\* every engine invocation of the call returned tokens that concatenate to
\* the text it was given
EnginesReconstruct ==
    \A i \in 1..Len(calls) : Concat(segment(calls[i])) = calls[i].text

\* C2: syllable_tokenize(text) is, in order, the concatenation of
\* word_tokenize(w, custom_dict=syllable trie) over the tokens w of
\* word_tokenize(text); when the newmm engine's tokens concatenate to its
\* input, the output concatenates to the text.
C2_SyllableComposition ==
    (Done("syllable_tokenize") /\ ~EmptyOrNotString(args.text))
        => LET words == word_tokenize(args.text, PyNone, "newmm", TRUE).ret.items
               trie == PyTrie(SeqToSet(thai_syllables.items))
               part(w) == word_tokenize(PyStr(w), trie, "newmm", TRUE).ret.items
           IN /\ ret = PyList(Flatten([i \in 1..Len(words) |-> part(words[i])]))
              /\ raised = NoError
              /\ EnginesReconstruct => Concat(ret.items) = args.text.val

\* a text of a two-syllable word, an interior space and another word
C2_Witness ==
    /\ Done("syllable_tokenize")
    /\ args.text = PyStr(<<"k", "a", "a", SP>>)
    /\ ret = PyList(<<<<"k", "a">>, <<"a">>, <<SP>>>>)

\* C3: word_tokenize with an engine name that is not recognized returns what
\* it returns with engine="newmm" and the same other arguments, invokes the
\* same collaborator with the same arguments, and raises nothing.
C3_UnknownEngineIsNewmm ==
    (Done("word_tokenize") /\ args.engine \notin RecognizedEngines)
        => LET newmm == word_tokenize(args.text, args.custom_dict, "newmm",
                                      args.keep_whitespace)
           IN ret = newmm.ret /\ calls = newmm.calls /\ raised = NoError

C3_Witness ==
    /\ Done("word_tokenize")
    /\ args.engine = "nonexistent_name"
    /\ args.custom_dict = SpacedTrie
    /\ args.text = PyStr(<<"a", SP, "k">>)
    /\ ~args.keep_whitespace
    /\ ret = PyList(<<<<"a">>, <<"k">>>>)

HasNonSpace(token) == \E i \in 1..Len(token) : token[i] # SP

\* r is t without its leading and trailing ASCII spaces
IsSpaceStripped(r, t) ==
    /\ r # <<>>
    /\ r[1] # SP
    /\ r[Len(r)] # SP
    /\ \E a, b \in 0..Len(t) :
          t = Repeat(<<SP>>, a) \o r \o Repeat(<<SP>>, b)

\* C4: with keep_whitespace false the result is the engine's tokens, in
\* order, without those that are empty or all ASCII spaces, each of the others
\* stripped of its leading and trailing ASCII spaces and of nothing else.
C4_WhitespaceDropped ==
    (Done("word_tokenize") /\ ~args.keep_whitespace /\ calls # <<>>)
        => LET kept == SelectSeq(segment(calls[1]), HasNonSpace)
           IN /\ Len(ret.items) = Len(kept)
              /\ \A i \in 1..Len(kept) : IsSpaceStripped(ret.items[i], kept[i])

\* the engine cut "a " and a lone tab: the space of the first is stripped, and
\* the tab stays a token of the result
C4_Witness ==
    /\ Done("word_tokenize")
    /\ ~args.keep_whitespace
    /\ calls # <<>>
    /\ segment(calls[1]) = <<<<"a", SP>>, <<TAB>>>>
    /\ ret = PyList(<<<<"a">>, <<TAB>>>>)

\* C5: sent_tokenize(text, engine="whitespace") of a non-empty text splits at
\* every run of ASCII spaces: no returned segment holds an ASCII space.
C5_SplitsAtEveryRunOfSpaces ==
    (/\ Done("sent_tokenize")
     /\ args.engine = "whitespace"
     /\ ~EmptyOrNotString(args.text))
        => \A i \in 1..Len(ret.items) :
              \A j \in 1..Len(ret.items[i]) : ret.items[i][j] # SP

\* C6: dict_trie returns a trie unchanged, reads a string as the path of a
\* file whose lines are the vocabulary (failing when there is no such file),
\* and builds from any other iterable the trie of its elements; building a
\* trie from the trie it returned gives that trie again.
C6_DictTrieClassifies ==
    Done("dict_trie")
        => LET source == args.dict_source
           IN /\ source.type = "Trie" => (ret = source /\ raised = NoError)
              /\ (source.type = "str" /\ source.val \in Files)
                    => /\ raised = NoError
                       /\ ret = PyTrie(SeqToSet(splitlines(FileContent(source.val))))
              /\ (source.type = "str" /\ source.val \notin Files)
                    => (raised = FileNotFoundError /\ ret = NoValue)
              /\ source.type = "list"
                    => (raised = NoError /\ ret = PyTrie(SeqToSet(source.items)))
              /\ (raised = NoError /\ ret.type = "Trie")
                    => dict_trie(ret).ret = ret

\* the path "a" gave the two lines of its file, not the character "a"
C6_Witness ==
    /\ Done("dict_trie")
    /\ args.dict_source = PyStr(<<"a">>)
    /\ ret = PyTrie({<<"k", "a">>, <<"k">>})

\* the source is neither a trie, a string nor an iterable
Unsupported(source) == source.type \notin {"Trie", "str", "list"}

\* C7 as stated: on a source that is neither a trie, a string nor an iterable
\* dict_trie fails with an error that names the received type, and returns
\* no trie.
C7_ErrorNamesReceivedType ==
    (Done("dict_trie") /\ Unsupported(args.dict_source))
        => /\ raised.type = "TypeError"
           /\ ret = NoValue
           /\ args.dict_source.type \in SeqToSet(raised.msg)

\* C7 as amended: on such a source dict_trie fails with a TypeError whose
\* message is the same for every source, lists the accepted types and does
\* not name the received one, and returns no trie.
C7_ErrorListsAcceptedTypes ==
    (Done("dict_trie") /\ Unsupported(args.dict_source))
        => /\ raised.type = "TypeError"
           /\ ret = NoValue
           /\ raised.msg = TypeErrorMessage
           /\ {"marisa_trie.Trie", "Iterable[str]", "str"} \subseteq SeqToSet(raised.msg)
           /\ args.dict_source.type \notin SeqToSet(raised.msg)

C7_Witness ==
    /\ Done("dict_trie")
    /\ args.dict_source = PyInt(5)
    /\ raised.type = "TypeError"
    /\ ret = NoValue

\* the dictionary the dispatch table gives the engine of a word_tokenize call
TableDictionary(engine, custom_dict) ==
    IF engine = "deepcut"
    THEN IF custom_dict # PyNone THEN list(custom_dict) ELSE Absent
    ELSE IF engine = "ulmfit" THEN FROZEN_DICT_TRIE
    ELSE IF engine = "icu" THEN Absent
    ELSE IF custom_dict # PyNone THEN custom_dict
    ELSE DEFAULT_DICT_TRIE

\* the dictionary an invoked engine works with
EngineDictionary(call) ==
    IF call.module \in {"newmm", "longest", "multi_cut"}
    THEN PyTrie(Vocabulary(call.dict))
    ELSE call.dict

\* C9: the dictionary word_tokenize hands the engine follows the table:
\* custom_dict if given, else the default trie, for newmm/onecut, longest and
\* mm/multi_cut; list(custom_dict) whenever a custom_dict is given, and none
\* otherwise, for deepcut; the frozen trie for ulmfit; none for icu.
C9_DictionaryFollowsTable ==
    (/\ Done("word_tokenize")
     /\ ~EmptyOrNotString(args.text)
     /\ args.custom_dict.type \in {"NoneType", "Trie"})
        => /\ Len(calls) = 1
           /\ EngineDictionary(calls[1]) =
                  TableDictionary(args.engine, args.custom_dict)

\* the facade was constructed with a custom dictionary that dict_trie resolves
ConstructedWithDictionary ==
    /\ self # NoTokenizer
    /\ constructed_with.custom_dict # PyNone
    /\ dict_trie(constructed_with.custom_dict).raised = NoError

\* C8: for a facade constructed with a custom dictionary, after any sequence
\* of word_tokenize and set_tokenize_engine calls the bound dictionary is the
\* trie resolved at construction and dict_trie has been invoked exactly once.
C8_DictionaryResolvedOnce ==
    ConstructedWithDictionary
        => /\ dict_trie_count = 1
           /\ self.trie_dict = dict_trie(constructed_with.custom_dict).ret

\* the rest of C8: once the facade is constructed no call changes its bound
\* dictionary or invokes dict_trie, set_tokenize_engine changes the engine
\* name alone and word_tokenize changes no field.
FacadeDictionaryStable ==
    [][self # NoTokenizer
          => /\ self'.trie_dict = self.trie_dict
             /\ dict_trie_count' = dict_trie_count
             /\ op' = "Tokenizer.word_tokenize" => self' = self]_vars

\* C10: the facade's word_tokenize(text) returns what the module-level
\* word_tokenize(text, custom_dict=bound dictionary, engine=E,
\* keep_whitespace=true) returns, E being the engine name last given to the
\* setter, or to the constructor if the setter was never called; the bound
\* dictionary is dict_trie of the constructor's argument when one is given,
\* an empty vocabulary included, else the default trie.
C10_FacadeForwardsToWordTokenize ==
    (/\ Done("Tokenizer.word_tokenize")
     /\ (constructed_with.custom_dict = PyNone \/ ConstructedWithDictionary))
        => LET given == constructed_with.custom_dict
               bound == IF given # PyNone THEN dict_trie(given).ret
                        ELSE DEFAULT_DICT_TRIE
               module_level == word_tokenize(args.text, bound, requested_engine, TRUE)
           IN /\ self.trie_dict = bound
              /\ ret = module_level.ret
              /\ calls = module_level.calls
              /\ raised = NoError

=============================================================================
